---- MODULE Spec2Model ----
(***************************************************************************)
(* Model of convert.py, the MSO -> StormAudio filter converter.            *)
(*                                                                         *)
(* Text is kept as TLA+ strings.  A block of the input document is a       *)
(* sequence of chunks (the pieces re.split cuts at each "FLnn:" line); a   *)
(* chunk is its first line plus its parameter lines, a parameter line      *)
(* being the label and the text that follows "= ".  Python floats are      *)
(* integers counting thousandths.                                          *)
(***************************************************************************)
EXTENDS Integers, Sequences, FiniteSets, TLC

VARIABLES
    pc,              \* position of the run
    input_exists,    \* the input file can be opened
    q_type,          \* "rbj" or "classic"
    included_types,  \* optional list of include phrases
    excluded_types,  \* optional list of exclude phrases
    combine_shared,  \* the combine_shared flag
    block_names,     \* keys of channel_blocks, in document order
    has_shared,      \* extract_shared_sub_block returned a block
    parsed,          \* number of channel blocks parsed so far
    channels,        \* ordered dict: sequence of [name, filters]
    shared_sub,      \* records of the shared block
    written,         \* number of entries of channels already written
    writes,          \* the file writes performed, in order
    cause,           \* what made the run fail
    reported,        \* which except clause reported the failure
    text,            \* input of a direct parse_filters_from_text call
    filters,         \* records handed to / returned by a direct call
    channel_name,    \* channel label of a direct emitter call
    outcome          \* result of a direct call

vars == <<pc, input_exists, q_type, included_types, excluded_types,
          combine_shared, block_names, has_shared, parsed, channels,
          shared_sub, written, writes, cause, reported, text, filters,
          channel_name, outcome>>

-----------------------------------------------------------------------------
(* Bounds *)

\* chunks per block of text
MaxChunks == 2
\* records handed directly to the emitter
MaxEmit == 2

-----------------------------------------------------------------------------
(* Strings *)

Digits == {"0", "1", "2", "3", "4", "5", "6", "7", "8", "9"}

\* the character class [\d.]
NumChars == Digits \cup {"."}

\* the character class [-\d.]
SignedNumChars == NumChars \cup {"-"}

Char(s, i) == SubSeq(s, i, i)

Lower1(c) ==
    CASE c = "A" -> "a" [] c = "B" -> "b" [] c = "C" -> "c" [] c = "D" -> "d"
      [] c = "E" -> "e" [] c = "F" -> "f" [] c = "G" -> "g" [] c = "H" -> "h"
      [] c = "I" -> "i" [] c = "J" -> "j" [] c = "K" -> "k" [] c = "L" -> "l"
      [] c = "M" -> "m" [] c = "N" -> "n" [] c = "O" -> "o" [] c = "P" -> "p"
      [] c = "Q" -> "q" [] c = "R" -> "r" [] c = "S" -> "s" [] c = "T" -> "t"
      [] c = "U" -> "u" [] c = "V" -> "v" [] c = "W" -> "w" [] c = "X" -> "x"
      [] c = "Y" -> "y" [] c = "Z" -> "z" [] OTHER -> c

\* str.lower()
RECURSIVE Lower(_)
Lower(s) ==
    IF Len(s) = 0 THEN ""
    ELSE Lower1(Char(s, 1)) \o Lower(SubSeq(s, 2, Len(s)))

\* Python's `sub in s`
Contains(sub, s) ==
    \E i \in 1..(Len(s) - Len(sub) + 1) : SubSeq(s, i, i + Len(sub) - 1) = sub

\* the longest prefix of s made of characters of cls (a greedy [cls]* at s)
RECURSIVE Run(_, _)
Run(cls, s) ==
    IF Len(s) = 0 \/ Char(s, 1) \notin cls THEN ""
    ELSE Char(s, 1) \o Run(cls, SubSeq(s, 2, Len(s)))

\* str.strip(), for blanks
RECURSIVE Strip(_)
Strip(s) ==
    IF Len(s) = 0 THEN ""
    ELSE IF Char(s, 1) = " " THEN Strip(SubSeq(s, 2, Len(s)))
    ELSE IF Char(s, Len(s)) = " " THEN Strip(SubSeq(s, 1, Len(s) - 1))
    ELSE s

Count(c, s) == Cardinality({i \in 1..Len(s) : Char(s, i) = c})

-----------------------------------------------------------------------------
(* float() on a text matched by [\d.]+ or [-\d.]+ *)

Unsigned(s) ==
    IF Len(s) > 0 /\ Char(s, 1) = "-" THEN SubSeq(s, 2, Len(s)) ELSE s

\* float(s) returns; otherwise it raises ValueError
FloatOK(s) ==
    LET b == Unsigned(s)
    IN  /\ Count("-", b) = 0
        /\ Count(".", b) <= 1
        /\ Len(b) - Count(".", b) >= 1

DigitVal(c) ==
    CASE c = "0" -> 0 [] c = "1" -> 1 [] c = "2" -> 2 [] c = "3" -> 3
      [] c = "4" -> 4 [] c = "5" -> 5 [] c = "6" -> 6 [] c = "7" -> 7
      [] c = "8" -> 8 [] c = "9" -> 9

RECURSIVE NatVal(_)
NatVal(s) ==
    IF Len(s) = 0 THEN 0
    ELSE NatVal(SubSeq(s, 1, Len(s) - 1)) * 10 + DigitVal(Char(s, Len(s)))

\* the value of float(s), in thousandths
FloatVal(s) ==
    LET b    == Unsigned(s)
        dot  == IF Count(".", b) = 0 THEN Len(b) + 1
                ELSE CHOOSE i \in 1..Len(b) : Char(b, i) = "."
        int  == SubSeq(b, 1, dot - 1)
        frac == SubSeq(SubSeq(b, dot + 1, Len(b)) \o "000", 1, 3)
        mag  == NatVal(int) * 1000 + NatVal(frac)
    IN  IF b = s THEN mag ELSE 0 - mag

-----------------------------------------------------------------------------
(* Optional arguments *)

NoneValue == [is_none |-> TRUE, items |-> <<>>]

ListOf(items) == [is_none |-> FALSE, items |-> items]

\* the defaults parse_filters_from_text substitutes for None
DefaultIncluded == <<"Parametric EQ">>

DefaultExcluded == <<"Gain Block", "Delay Block">>

\* the defaults of the command line
CliIncluded == <<"Parametric EQ", "All-Pass">>

CliExcluded == <<"Gain Block", "Delay Block">>

-----------------------------------------------------------------------------
(* Field extraction *)

\* group(1) of re.search(r'<label> = ([cls]+)', parameters): the text matched
\* on the first line that carries the label followed by a character of cls;
\* "" when the search finds nothing
NoMatch == ""

Search(label, cls, parameters) ==
    LET hits == {i \in 1..Len(parameters) :
                    /\ parameters[i].label = label
                    /\ Run(cls, parameters[i].value) # ""}
    IN  IF hits = {} THEN NoMatch
        ELSE Run(cls, parameters[CHOOSE i \in hits : \A j \in hits : i <= j].value)

\* what a call gives back: it raised ValueError, or returned `out`
\* (<<>> for None, <<r>> for a record r, a list for a list)
Returned(out) == [raised |-> FALSE, out |-> out]

Raised == [raised |-> TRUE, out |-> <<>>]

\* variant: the boost is not among the required fields
RequiredPresent_NoBoost(freq_match, gain_match, q_rbj_match) ==
    freq_match # NoMatch /\ q_rbj_match # NoMatch

\* the test `freq_match and gain_match and q_rbj_match`
RequiredPresent(freq_match, gain_match, q_rbj_match) ==
    freq_match # NoMatch /\ gain_match # NoMatch /\ q_rbj_match # NoMatch

\* variant: the selection ignores q_type
SelectQ_AlwaysRbj(q_type_, q_rbj, q_classic) == q_rbj

\* the Q the record carries as 'q'
SelectQ(q_type_, q_rbj, q_classic) ==
    IF q_type_ = "classic" THEN q_classic ELSE q_rbj

parse_parametric_eq_parameters(filter_name, filter_type, parameters, q_type_) ==
    LET freq_match      == Search("Center freq (Hz)", NumChars, parameters)
        gain_match      == Search("Boost (dB)", SignedNumChars, parameters)
        q_rbj_match     == Search("Q (RBJ)", NumChars, parameters)
        q_classic_match == Search("Classic Q", NumChars, parameters)
    IN  IF ~RequiredPresent(freq_match, gain_match, q_rbj_match)
        THEN Returned(<<>>)
        ELSE IF \/ ~FloatOK(freq_match)
                \/ ~FloatOK(gain_match)
                \/ ~FloatOK(q_rbj_match)
                \/ (q_classic_match # NoMatch /\ ~FloatOK(q_classic_match))
        THEN Raised
        ELSE LET q_rbj     == FloatVal(q_rbj_match)
                 q_classic == IF q_classic_match # NoMatch
                              THEN FloatVal(q_classic_match) ELSE q_rbj
             IN  Returned(<<[name      |-> filter_name,
                             type      |-> filter_type,
                             freq      |-> FloatVal(freq_match),
                             gain      |-> FloatVal(gain_match),
                             q         |-> SelectQ(q_type_, q_rbj, q_classic),
                             q_rbj     |-> q_rbj,
                             q_classic |-> q_classic]>>)

parse_allpass_parameters(filter_name, filter_type, parameters) ==
    LET freq_match == Search("Freq of 180 deg phase (Hz)", NumChars, parameters)
        q_match    == Search("All-pass Q", NumChars, parameters)
    IN  IF ~(freq_match # NoMatch /\ q_match # NoMatch)
        THEN Returned(<<>>)
        ELSE IF ~FloatOK(freq_match) \/ ~FloatOK(q_match)
        THEN Raised
        ELSE Returned(<<[name |-> filter_name,
                         type |-> filter_type,
                         freq |-> FloatVal(freq_match),
                         q    |-> FloatVal(q_match)]>>)

-----------------------------------------------------------------------------
(* Filter parser *)

\* re.match(r'(FL\d+): (.+)', first_line)
HeadDigits(first_line) ==
    IF Len(first_line) >= 2 /\ SubSeq(first_line, 1, 2) = "FL"
    THEN Run(Digits, SubSeq(first_line, 3, Len(first_line)))
    ELSE ""

filter_match(first_line) ==
    LET d == HeadDigits(first_line)
    IN  /\ d # ""
        /\ Len(first_line) >= Len(d) + 5
        /\ SubSeq(first_line, Len(d) + 3, Len(d) + 4) = ": "

filter_name_of(first_line) == "FL" \o HeadDigits(first_line)

filter_type_of(first_line) ==
    Strip(SubSeq(first_line, Len(HeadDigits(first_line)) + 5, Len(first_line)))

\* variant: an include match is final
should_include_IncludeWins(filter_type, included, excluded) ==
    LET inc == \E i \in 1..Len(included) :
                   Contains(Lower(included[i]), Lower(filter_type))
    IN  inc

\* the include loop, then the exclude loop that overrides it
should_include(filter_type, included, excluded) ==
    LET inc == \E i \in 1..Len(included) :
                   Contains(Lower(included[i]), Lower(filter_type))
        exc == \E i \in 1..Len(excluded) :
                   Contains(Lower(excluded[i]), Lower(filter_type))
    IN  IF exc THEN FALSE ELSE inc

\* the routine the parser hands an included chunk to
Dispatch(filter_type) ==
    IF Contains("Parametric EQ", filter_type) THEN "parametric"
    ELSE IF Contains("All-Pass", filter_type) THEN "allpass"
    ELSE "none"

\* one iteration of the loop over filter_blocks
ParseFilterBlock(block, q_type_, included, excluded) ==
    IF ~filter_match(block.first_line) THEN Returned(<<>>)
    ELSE LET filter_name == filter_name_of(block.first_line)
             filter_type == filter_type_of(block.first_line)
         IN  IF ~should_include(filter_type, included, excluded)
             THEN Returned(<<>>)
             ELSE CASE Dispatch(filter_type) = "parametric" ->
                         parse_parametric_eq_parameters(
                             filter_name, filter_type, block.params, q_type_)
                    [] Dispatch(filter_type) = "allpass" ->
                         parse_allpass_parameters(
                             filter_name, filter_type, block.params)
                    [] OTHER -> Returned(<<>>)

\* filters.append(filter_data)
AppendFilters(acc, filter_data) == acc \o filter_data

RECURSIVE ParseLoop(_, _, _, _, _, _)
ParseLoop(filter_blocks, i, acc, q_type_, included, excluded) ==
    IF i > Len(filter_blocks) THEN Returned(acc)
    ELSE LET r == ParseFilterBlock(filter_blocks[i], q_type_, included, excluded)
         IN  IF r.raised THEN Raised
             ELSE ParseLoop(filter_blocks, i + 1, AppendFilters(acc, r.out),
                            q_type_, included, excluded)

parse_filters_from_text(text_, q_type_, included_types_, excluded_types_) ==
    LET included == IF included_types_.is_none THEN DefaultIncluded
                    ELSE included_types_.items
        excluded == IF excluded_types_.is_none THEN DefaultExcluded
                    ELSE excluded_types_.items
    IN  ParseLoop(text_, 1, <<>>, q_type_, included, excluded)

-----------------------------------------------------------------------------
(* Format emitter *)

\* the test that selects a rendering rule
Rule(filter_type) ==
    IF Contains("Parametric EQ", filter_type) THEN "Bell"
    ELSE IF Contains("All-Pass", filter_type) THEN "All Pass"
    ELSE "none"

\* variant: the last two branches print each other's order
Order_ThirdFourthSwapped(filter_type) ==
    IF Contains("Second-Order", filter_type) THEN 2
    ELSE IF Contains("First-Order", filter_type) THEN 1
    ELSE IF Contains("Third-Order", filter_type) THEN 4
    ELSE IF Contains("Fourth-Order", filter_type) THEN 3
    ELSE 2

\* the order printed for an All-Pass record
Order(filter_type) ==
    IF Contains("Second-Order", filter_type) THEN 2
    ELSE IF Contains("First-Order", filter_type) THEN 1
    ELSE IF Contains("Third-Order", filter_type) THEN 3
    ELSE IF Contains("Fourth-Order", filter_type) THEN 4
    ELSE 2

\* the line written for a record that has a rule ("Gain 0 dB" of an
\* All-Pass line is a literal)
FilterLine(filter_count, filter_data) ==
    IF Rule(filter_data.type) = "Bell"
    THEN [n    |-> filter_count,
          kind |-> "Bell",
          freq |-> filter_data.freq,
          gain |-> filter_data.gain,
          q    |-> filter_data.q]
    ELSE [n     |-> filter_count,
          kind  |-> "All Pass",
          order |-> Order(filter_data.type),
          freq  |-> filter_data.freq,
          gain  |-> 0,
          q     |-> filter_data.q]

\* variant: a skipped record consumes a number too
NextCount_CountsSkipped(filter_count, filter_data) == filter_count + 1

\* filter_count after the iteration for filter_data
NextCount(filter_count, filter_data) ==
    IF Rule(filter_data.type) = "none" THEN filter_count ELSE filter_count + 1

RECURSIVE EmitLoop(_, _, _, _)
EmitLoop(filters_, i, filter_count, lines) ==
    IF i > Len(filters_) THEN lines
    ELSE EmitLoop(filters_, i + 1, NextCount(filter_count, filters_[i]),
                  IF Rule(filters_[i].type) = "none" THEN lines
                  ELSE Append(lines, FilterLine(filter_count, filters_[i])))

\* the document written to output_file (the Dated line carries the day of
\* the run and is left out)
write_storm_audio_format(filters_, output_file, channel_name_, equaliser_name) ==
    [file      |-> output_file,
     equaliser |-> equaliser_name,
     channel   |-> IF channel_name_ # "" THEN <<channel_name_>> ELSE <<>>,
     lines     |-> EmitLoop(filters_, 1, 1, <<>>)]

\* a call of write_storm_audio_format: the records it is handed and the
\* document it writes
WriteCall(filters_, output_file, channel_name_, equaliser_name) ==
    [filters |-> filters_,
     doc     |-> write_storm_audio_format(filters_, output_file, channel_name_,
                                          equaliser_name)]

\* the directory after a sequence of writes: open(..., 'w') replaces a file
FilesAfter(ws) ==
    [f \in {ws[i].doc.file : i \in 1..Len(ws)} |->
        ws[CHOOSE i \in 1..Len(ws) :
              /\ ws[i].doc.file = f
              /\ \A j \in 1..Len(ws) : ws[j].doc.file = f => j <= i].doc]

-----------------------------------------------------------------------------
(* Conversion orchestrator *)

\* os.path.join(output_folder, f"{channel_name}_filters.txt"), inside the folder
ChannelFile(name) == name \o "_filters.txt"

SharedFile == "shared_sub_filters.txt"

\* variant: the channel's own records first
UnitFilters_OwnFirst(combine, shared, own) ==
    IF combine /\ shared # <<>> THEN own \o shared ELSE own

\* the records written for a channel: shared first when combining
UnitFilters(combine, shared, own) ==
    IF combine /\ shared # <<>> THEN shared \o own ELSE own

\* variant: the flag is not consulted
WritesSharedOnly_IgnoresFlag(shared, combine) == shared # <<>>

\* the guard of the shared-only write
WritesSharedOnly(shared, combine) == shared # <<>> /\ ~combine

\* variant: the loop stops after the first block
ParsePending_FirstOnly(done, names) == done < Len(names) /\ done < 1

\* the loop over channel_blocks has a block left
ParsePending(done, names) == done < Len(names)

\* the except clause that reports an exception
Report(exc) ==
    IF exc = "FileNotFoundError" THEN "input_not_found"
    ELSE "error_during_conversion"

-----------------------------------------------------------------------------
(* Inputs *)

BoundedSeq(S, n) == UNION {[1..k -> S] : k \in 0..n}

Param(label, value) == [label |-> label, value |-> value]

PeqFull ==
    <<Param("Center freq (Hz)", "100"), Param("Boost (dB)", "-3"),
      Param("Q (RBJ)", "0.7"), Param("Classic Q", "0.9")>>

PeqNoClassic ==
    <<Param("Center freq (Hz)", "80.5 Hz"), Param("Boost (dB)", "2.5"),
      Param("Q (RBJ)", "1.41")>>

PeqNoBoost ==
    <<Param("Center freq (Hz)", "100"), Param("Q (RBJ)", "0.7"),
      Param("Classic Q", "0.9")>>

PeqBadFreq ==
    <<Param("Center freq (Hz)", "1.2.3"), Param("Boost (dB)", "-3"),
      Param("Q (RBJ)", "0.7")>>

PeqBadClassic ==
    <<Param("Center freq (Hz)", "100"), Param("Boost (dB)", "-3"),
      Param("Q (RBJ)", "0.7"), Param("Classic Q", "1..2")>>

ApFull ==
    <<Param("Freq of 180 deg phase (Hz)", "60"), Param("All-pass Q", "1.0")>>

ApNoQ == <<Param("Freq of 180 deg phase (Hz)", "60")>>

GainBody == <<Param("Gain (dB)", "-2")>>

\* a chunk before its tag is known: the text after "FLnn: " and the
\* parameter lines; an untagged chunk is text that precedes the first tag
Shape(type, params) == [tagged |-> TRUE, type |-> type, params |-> params]

Preamble == [tagged |-> FALSE, type |-> "Shared sub channel:", params |-> <<>>]

DigitStr(n) ==
    CASE n = 0 -> "0" [] n = 1 -> "1" [] n = 2 -> "2" [] n = 3 -> "3"
      [] n = 4 -> "4" [] n = 5 -> "5" [] n = 6 -> "6" [] n = 7 -> "7"
      [] n = 8 -> "8" [] n = 9 -> "9"

\* tags are unique in a document: chunk i of the block numbered b carries
\* FL<b><i>
Tag(b, i) == "FL" \o b \o DigitStr(i)

Chunk(b, i, shape) ==
    [first_line |-> IF shape.tagged THEN Tag(b, i) \o ": " \o shape.type
                    ELSE shape.type,
     params     |-> shape.params]

Block(b, shapes) == [i \in 1..Len(shapes) |-> Chunk(b, i, shapes[i])]

\* the chunks a direct call of the parser is tried on
ParseShapes ==
    { Shape("Parametric EQ", PeqFull),
      Shape("Parametric EQ (RBJ) ", PeqNoClassic),
      Shape("Parametric EQ", PeqNoBoost),
      Shape("Parametric EQ", PeqBadFreq),
      Shape("Parametric EQ", PeqBadClassic),
      Shape("parametric eq", PeqFull),
      Shape("Parametric EQ gain block", PeqFull),
      Shape("All-Pass Second-Order", ApFull),
      Shape("All-Pass", ApNoQ),
      Shape("all-pass second-order", ApFull),
      Shape("Gain Block", GainBody),
      Shape("LPF Butterworth", GainBody),
      Preamble }

IncludeChoices ==
    { NoneValue, ListOf(CliIncluded), ListOf(<<"eq", "LPF", "Block">>) }

ExcludeChoices ==
    { NoneValue, ListOf(<<"GAIN">>) }

\* the chunks the channel blocks of a whole run are made of
RunShapes ==
    { Shape("Parametric EQ", PeqFull),
      Shape("Gain Block", GainBody),
      Shape("Parametric EQ", PeqBadFreq) }

\* the chunks the shared block of a whole run is made of
RunSharedShapes ==
    { Shape("All-Pass Third-Order", ApFull),
      Shape("Gain Block", GainBody),
      Shape("Parametric EQ", PeqBadClassic) }

ChannelNames == {"Left", "shared_sub"}

\* the block number the tags of the shared block carry
SharedBlockNo == "9"

\* the span extract_shared_sub_block returns starts with its start phrase;
\* the filter chunks follow
SharedBlock(shapes) ==
    <<Chunk(SharedBlockNo, 0, Preamble)>> \o Block(SharedBlockNo, shapes)

\* the records a direct call of the emitter is tried on
PeqRecord(type) ==
    [name |-> "FL1", type |-> type, freq |-> 100000, gain |-> -3000,
     q |-> 700, q_rbj |-> 700, q_classic |-> 900]

ApRecord(type) ==
    [name |-> "FL2", type |-> type, freq |-> 60000, q |-> 1000]

EmitRecords ==
    { PeqRecord("Parametric EQ"),
      ApRecord("All-Pass First-Order"),
      ApRecord("All-Pass Second-Order"),
      ApRecord("All-Pass Third-Order"),
      ApRecord("All-Pass Fourth-Order"),
      ApRecord("All-Pass"),
      ApRecord("All-Pass First"),
      ApRecord("All-Pass First-Order Second-Order"),
      ApRecord("Gain Block"),
      ApRecord("parametric eq") }

-----------------------------------------------------------------------------
(* A run of convert_mso_to_storm_audio *)

NoRepeats(seq) == \A i, j \in 1..Len(seq) : seq[i] = seq[j] => i = j

Init ==
    /\ pc = "start"
    /\ input_exists \in BOOLEAN
    /\ q_type \in {"rbj", "classic"}
    /\ included_types = ListOf(CliIncluded)
    /\ excluded_types = ListOf(CliExcluded)
    /\ combine_shared \in BOOLEAN
    /\ block_names \in {n \in BoundedSeq(ChannelNames, Cardinality(ChannelNames)) :
                           NoRepeats(n)}
    /\ has_shared \in BOOLEAN
    /\ parsed = 0
    /\ channels = <<>>
    /\ shared_sub = <<>>
    /\ written = 0
    /\ writes = <<>>
    /\ cause = "none"
    /\ reported = "none"
    /\ text = <<>>
    /\ filters = <<>>
    /\ channel_name = ""
    /\ outcome = "none"

config == <<input_exists, q_type, included_types, excluded_types,
            combine_shared, block_names, has_shared>>

direct == <<text, filters, channel_name, outcome>>

Fail(why, exc) ==
    /\ pc' = "error"
    /\ cause' = why
    /\ reported' = Report(exc)

\* makedirs, then open(input_file) in parse_mso_file
OpenInput ==
    /\ pc = "start"
    /\ IF input_exists
       THEN pc' = "parse" /\ UNCHANGED <<cause, reported>>
       ELSE Fail("missing_input", "FileNotFoundError")
    /\ UNCHANGED <<config, direct, parsed, channels, shared_sub, written, writes>>

\* one iteration of the loop over channel_blocks
ParseChannel ==
    /\ pc = "parse"
    /\ ParsePending(parsed, block_names)
    /\ \E shapes \in BoundedSeq(RunShapes, MaxChunks) :
          LET r == parse_filters_from_text(
                       Block(DigitStr(parsed + 1), shapes),
                       q_type, included_types, excluded_types)
          IN  IF r.raised
              THEN /\ Fail("numeric", "ValueError")
                   /\ UNCHANGED <<parsed, channels>>
              ELSE /\ parsed' = parsed + 1
                   /\ channels' =
                        IF r.out # <<>>
                        THEN Append(channels, [name    |-> block_names[parsed + 1],
                                               filters |-> r.out])
                        ELSE channels
                   /\ UNCHANGED <<pc, cause, reported>>
    /\ UNCHANGED <<config, direct, shared_sub, written, writes>>

\* the shared block, after the channel blocks; parse_mso_file returns
ParseShared ==
    /\ pc = "parse"
    /\ ~ParsePending(parsed, block_names)
    /\ IF has_shared
       THEN \E shapes \in BoundedSeq(RunSharedShapes, MaxChunks) \ {<<>>} :
               LET r == parse_filters_from_text(
                            SharedBlock(shapes),
                            q_type, included_types, excluded_types)
               IN  IF r.raised
                   THEN /\ Fail("numeric", "ValueError")
                        /\ UNCHANGED shared_sub
                   ELSE /\ shared_sub' = r.out
                        /\ pc' = "write"
                        /\ UNCHANGED <<cause, reported>>
       ELSE /\ pc' = "write"
            /\ UNCHANGED <<shared_sub, cause, reported>>
    /\ UNCHANGED <<config, direct, parsed, channels, written, writes>>

\* one iteration of the loop over channels: the channel's file is written,
\* or opening it raises
WriteChannel ==
    /\ pc = "write"
    /\ written < Len(channels)
    /\ LET c == channels[written + 1]
       IN  \/ /\ writes' = Append(writes,
                      WriteCall(
                          UnitFilters(combine_shared, shared_sub, c.filters),
                          ChannelFile(c.name), c.name, "StormAudio"))
              /\ written' = written + 1
              /\ UNCHANGED <<pc, cause, reported>>
           \/ /\ \E exc \in {"FileNotFoundError", "PermissionError"} :
                     Fail("write", exc)
              /\ UNCHANGED <<written, writes>>
    /\ UNCHANGED <<config, direct, parsed, channels, shared_sub>>

\* the shared-only file, after the channel files; the run ends
WriteShared ==
    /\ pc = "write"
    /\ written = Len(channels)
    /\ IF WritesSharedOnly(shared_sub, combine_shared)
       THEN \/ /\ writes' = Append(writes,
                       WriteCall(
                           shared_sub, SharedFile, "Shared Sub", "StormAudio"))
               /\ pc' = "done"
               /\ UNCHANGED <<cause, reported>>
            \/ /\ \E exc \in {"FileNotFoundError", "PermissionError"} :
                      Fail("write", exc)
               /\ UNCHANGED writes
       ELSE /\ pc' = "done"
            /\ UNCHANGED <<writes, cause, reported>>
    /\ UNCHANGED <<config, direct, parsed, channels, shared_sub, written>>

Next ==
    \/ OpenInput
    \/ ParseChannel
    \/ ParseShared
    \/ WriteChannel
    \/ WriteShared

Spec == Init /\ [][Next]_vars

-----------------------------------------------------------------------------
(* A direct call of parse_filters_from_text *)

run == <<input_exists, combine_shared, block_names, has_shared, parsed,
         channels, shared_sub, written, writes, cause, reported>>

IdleRun ==
    /\ input_exists = TRUE
    /\ combine_shared = FALSE
    /\ block_names = <<>>
    /\ has_shared = FALSE
    /\ parsed = 0
    /\ channels = <<>>
    /\ shared_sub = <<>>
    /\ written = 0
    /\ writes = <<>>
    /\ cause = "none"
    /\ reported = "none"

InitParse ==
    /\ pc = "call_parse"
    /\ IdleRun
    /\ q_type \in {"rbj", "classic"}
    /\ included_types \in IncludeChoices
    /\ excluded_types \in ExcludeChoices
    /\ \E shapes \in BoundedSeq(ParseShapes, MaxChunks) : text = Block("1", shapes)
    /\ filters = <<>>
    /\ channel_name = ""
    /\ outcome = "none"

CallParse ==
    /\ pc = "call_parse"
    /\ outcome' = parse_filters_from_text(text, q_type, included_types, excluded_types)
    /\ pc' = "parse_returned"
    /\ UNCHANGED <<run, q_type, included_types, excluded_types, text, filters,
                   channel_name>>

NextParse == CallParse

SpecParse == InitParse /\ [][NextParse]_vars

-----------------------------------------------------------------------------
(* A direct call of write_storm_audio_format *)

InitEmit ==
    /\ pc = "call_emit"
    /\ IdleRun
    /\ q_type = "rbj"
    /\ included_types = NoneValue
    /\ excluded_types = NoneValue
    /\ text = <<>>
    /\ filters \in BoundedSeq(EmitRecords, MaxEmit)
    /\ channel_name \in {"", "Left"}
    /\ outcome = "none"

CallEmit ==
    /\ pc = "call_emit"
    /\ outcome' = write_storm_audio_format(filters, "out.txt", channel_name, "StormAudio")
    /\ pc' = "emit_returned"
    /\ UNCHANGED <<run, q_type, included_types, excluded_types, text, filters,
                   channel_name>>

NextEmit == CallEmit

SpecEmit == InitEmit /\ [][NextEmit]_vars

-----------------------------------------------------------------------------
(* Properties of a run *)

\* the writes of the shared-only unit
SharedUnitWrites ==
    {i \in 1..Len(writes) : writes[i].doc.channel = <<"Shared Sub">>}

\* the writes that target the fixed file name
SharedFileWrites ==
    {i \in 1..Len(writes) : writes[i].doc.file = SharedFile}

\* the lines of a written document render the records it was handed, in order
Renders(w) ==
    /\ Len(w.doc.lines) = Len(w.filters)
    /\ \A j \in 1..Len(w.filters) :
          /\ w.doc.lines[j].n = j
          /\ w.doc.lines[j].freq = w.filters[j].freq
          /\ w.doc.lines[j].q = w.filters[j].q
          /\ w.doc.lines[j].kind =
                IF "gain" \in DOMAIN w.filters[j] THEN "Bell" ELSE "All Pass"

\* C1 as stated: in a completed run on a document whose shared block holds
\* at least one filter chunk, shared_sub_filters.txt is never written when combine_shared is set, and is
\* written exactly once, holding only the shared records, when it is not.
C1_SharedFileAsStated ==
    (pc = "done" /\ has_shared) =>
        IF combine_shared
        THEN SharedFileWrites = {}
        ELSE /\ Cardinality(SharedFileWrites) = 1
             /\ \A i \in SharedFileWrites : writes[i].filters = shared_sub

\* C1 (amended): the shared-only unit is never written when combine_shared is
\* set and never more than once; a run that completes has written it exactly
\* once if and only if combine_shared is not set and the shared block yielded
\* at least one record; when written it is the last write, goes to
\* shared_sub_filters.txt and renders exactly the shared records.
C1_SharedOnlyUnit ==
    /\ combine_shared => SharedUnitWrites = {}
    /\ Cardinality(SharedUnitWrites) <= 1
    /\ pc = "done" =>
          (Cardinality(SharedUnitWrites) = 1
              <=> (~combine_shared /\ shared_sub # <<>>))
    /\ \A i \in SharedUnitWrites :
          /\ i = Len(writes)
          /\ pc = "done"
          /\ writes[i].doc.file = SharedFile
          /\ writes[i].filters = shared_sub
          /\ shared_sub # <<>>
          /\ Renders(writes[i])

C1_Witness ==
    /\ pc = "done"
    /\ has_shared
    /\ ~combine_shared
    /\ Len(channels) > 0
    /\ Len(shared_sub) > 1
    /\ SharedUnitWrites # {}

\* where a record came from: the block number and the position of its chunk
BlockOf(r) == Char(r.name, 3)

PosOf(r) == DigitVal(Char(r.name, 4))

Names(recs) == {recs[i].name : i \in 1..Len(recs)}

\* C6: in every unit written, the records of the shared block (when they are
\* combined in) all come before the channel's own records, the records of one
\* block keep the order of their chunks in the source, the unit holds all the
\* records of its blocks, and the document lists the unit's records in order.
C6_UnitOrder ==
    \A w \in 1..Len(writes) :
        LET u == writes[w].filters
        IN  /\ \A j, k \in 1..Len(u) :
                  j < k =>
                     /\ ~(BlockOf(u[j]) # SharedBlockNo /\ BlockOf(u[k]) = SharedBlockNo)
                     /\ BlockOf(u[j]) = BlockOf(u[k]) => PosOf(u[j]) < PosOf(u[k])
            /\ Renders(writes[w])
            /\ w <= Len(channels) =>
                  LET own    == channels[w].filters
                      shared == IF combine_shared THEN shared_sub ELSE <<>>
                  IN  /\ writes[w].doc.channel = <<channels[w].name>>
                      /\ Names(u) = Names(shared) \cup Names(own)
                      /\ Len(u) = Len(shared) + Len(own)

C6_Witness ==
    /\ pc = "done"
    /\ combine_shared
    /\ \E w \in 1..Len(writes) :
          /\ Len(writes[w].filters) = Len(shared_sub) + Len(channels[w].filters)
          /\ Len(shared_sub) > 1
          /\ Len(channels[w].filters) > 1

Perms(n) == {p \in [1..n -> 1..n] : \A i, j \in 1..n : p[i] = p[j] => i = j}

Permuted(ws, p) == [i \in 1..Len(ws) |-> ws[p[i]]]

\* C9 as stated: the files a completed run leaves, and their contents, are
\* the same for every order in which its writes are performed, and no two of
\* its writes target the same file name.
C9_WritesIndependent ==
    pc = "done" =>
        /\ \A p \in Perms(Len(writes)) :
              FilesAfter(Permuted(writes, p)) = FilesAfter(writes)
        /\ \A i, j \in 1..Len(writes) :
              writes[i].doc.file = writes[j].doc.file => i = j

\* C10: no file is written before every channel block and the shared block
\* are parsed, and a run that fails on a missing input file or on a value
\* that does not parse as a number ends in the error state with no file
\* written.
C10_ParseBeforeWrite ==
    /\ writes # <<>> =>
          /\ pc \in {"write", "done", "error"}
          /\ parsed = Len(block_names)
          /\ cause \in {"none", "write"}
    /\ pc \in {"start", "parse"} => writes = <<>> /\ written = 0
    /\ cause \in {"missing_input", "numeric"} =>
          /\ pc = "error"
          /\ reported # "none"
          /\ writes = <<>>
    /\ pc = "error" <=> cause # "none"

C10_Witness ==
    /\ pc = "error"
    /\ cause = "numeric"
    /\ channels # <<>>
    /\ parsed < Len(block_names)

-----------------------------------------------------------------------------
(* Properties of parse_filters_from_text *)

Included == IF included_types.is_none THEN DefaultIncluded ELSE included_types.items

Excluded == IF excluded_types.is_none THEN DefaultExcluded ELSE excluded_types.items

\* type case-insensitively contains one of the phrases
MatchesAny(phrases, type) ==
    \E i \in 1..Len(phrases) : Contains(Lower(phrases[i]), Lower(type))

\* the chunks of text whose first line is "FLnn: type"
Tagged == {i \in 1..Len(text) : filter_match(text[i].first_line)}

TypeOf(i) == filter_type_of(text[i].first_line)

\* the records the call returned for chunk i
RecordsOf(i) ==
    {j \in 1..Len(outcome.out) :
        outcome.out[j].name = filter_name_of(text[i].first_line)}

\* C3: a chunk whose type case-insensitively contains an exclude phrase
\* contributes no record, whether or not an include phrase matches too.
C3_ExcludeWins ==
    pc = "parse_returned" =>
        \A i \in Tagged :
            MatchesAny(Excluded, TypeOf(i)) => RecordsOf(i) = {}

C3_Witness ==
    /\ pc = "parse_returned"
    /\ outcome.out # <<>>
    /\ \E i \in Tagged :
          /\ MatchesAny(Excluded, TypeOf(i))
          /\ MatchesAny(Included, TypeOf(i))
          /\ Contains("Parametric EQ", TypeOf(i))

OtherQ(q) == IF q = "rbj" THEN "classic" ELSE "rbj"

\* C4: the same text parsed with 'rbj' and with 'classic' gives two lists of
\* the same length and order that differ only in q of the Parametric EQ
\* records (q_classic under 'classic', q_rbj under 'rbj'); every other field,
\* and every All-Pass record, is the same.
C4_QTypeFrame ==
    pc = "parse_returned" =>
        LET other == parse_filters_from_text(text, OtherQ(q_type),
                                             included_types, excluded_types)
            rbj   == IF q_type = "rbj" THEN outcome ELSE other
            cls   == IF q_type = "rbj" THEN other ELSE outcome
        IN  /\ rbj.raised = cls.raised
            /\ Len(rbj.out) = Len(cls.out)
            /\ \A i \in 1..Len(rbj.out) :
                  LET x == rbj.out[i]
                      y == cls.out[i]
                  IN  /\ x.name = y.name
                      /\ x.type = y.type
                      /\ x.freq = y.freq
                      /\ DOMAIN x = DOMAIN y
                      /\ IF "q_rbj" \in DOMAIN x
                         THEN /\ x.gain = y.gain
                              /\ x.q_rbj = y.q_rbj
                              /\ x.q_classic = y.q_classic
                              /\ x.q = x.q_rbj
                              /\ y.q = y.q_classic
                         ELSE x = y

C4_Witness ==
    /\ pc = "parse_returned"
    /\ q_type = "classic"
    /\ \E j \in 1..Len(outcome.out) :
          /\ "q_rbj" \in DOMAIN outcome.out[j]
          /\ outcome.out[j].q # outcome.out[j].q_rbj
    /\ \E j \in 1..Len(outcome.out) : "q_rbj" \notin DOMAIN outcome.out[j]

\* the chunk body has a line with the label whose value starts as the
\* pattern requires
Has(i, label, cls) ==
    \E k \in 1..Len(text[i].params) :
        /\ text[i].params[k].label = label
        /\ Len(text[i].params[k].value) > 0
        /\ Char(text[i].params[k].value, 1) \in cls

AllThree(i) ==
    /\ Has(i, "Center freq (Hz)", NumChars)
    /\ Has(i, "Boost (dB)", SignedNumChars)
    /\ Has(i, "Q (RBJ)", NumChars)

\* every value the routine matches in chunk i is one float() accepts
AllNumeric(i) ==
    /\ FloatOK(Search("Center freq (Hz)", NumChars, text[i].params))
    /\ FloatOK(Search("Boost (dB)", SignedNumChars, text[i].params))
    /\ FloatOK(Search("Q (RBJ)", NumChars, text[i].params))
    /\ Has(i, "Classic Q", NumChars) =>
          FloatOK(Search("Classic Q", NumChars, text[i].params))

\* the chunks the parser hands to parse_parametric_eq_parameters
PeqChunks == {i \in Tagged : Contains("Parametric EQ", TypeOf(i))}

PeqResult(i) ==
    parse_parametric_eq_parameters(filter_name_of(text[i].first_line), TypeOf(i),
                                   text[i].params, q_type)

\* C5 as stated: a Parametric EQ chunk yields a record if and only if centre
\* frequency, boost and RBJ Q are all present; with the Classic Q absent the
\* record's q_classic equals its q_rbj.
C5_RecordIffPresent ==
    pc = "parse_returned" =>
        \A i \in PeqChunks :
            /\ PeqResult(i).out # <<>> <=> AllThree(i)
            /\ (PeqResult(i).out # <<>> /\ ~Has(i, "Classic Q", NumChars)) =>
                  PeqResult(i).out[1].q_classic = PeqResult(i).out[1].q_rbj

\* C5 (amended): a Parametric EQ chunk yields a record if and only if the
\* three fields are present and every matched value, a matched Classic Q
\* included, parses as a number; with the three present and a value that does
\* not parse the routine raises; with the Classic Q absent the record's
\* q_classic equals its q_rbj.  A call of the parser that returns holds a
\* record for an included Parametric EQ chunk exactly when the three fields
\* are present.
C5_RecordIffPresentAndNumeric ==
    pc = "parse_returned" =>
        \A i \in PeqChunks :
            /\ PeqResult(i).out # <<>> <=> (AllThree(i) /\ AllNumeric(i))
            /\ PeqResult(i).raised <=> (AllThree(i) /\ ~AllNumeric(i))
            /\ (PeqResult(i).out # <<>> /\ ~Has(i, "Classic Q", NumChars)) =>
                  PeqResult(i).out[1].q_classic = PeqResult(i).out[1].q_rbj
            /\ (~outcome.raised /\ MatchesAny(Included, TypeOf(i))
                  /\ ~MatchesAny(Excluded, TypeOf(i))) =>
                  /\ RecordsOf(i) # {} <=> AllThree(i)
                  /\ \A j \in RecordsOf(i) :
                        /\ "q_classic" \in DOMAIN outcome.out[j]
                        /\ ~Has(i, "Classic Q", NumChars) =>
                              outcome.out[j].q_classic = outcome.out[j].q_rbj

C5_Witness ==
    /\ pc = "parse_returned"
    /\ ~outcome.raised
    /\ \E i \in PeqChunks :
          /\ AllThree(i)
          /\ ~Has(i, "Classic Q", NumChars)
          /\ RecordsOf(i) # {}
    /\ \E i \in PeqChunks : ~AllThree(i) /\ RecordsOf(i) = {}

\* the fields parse_allpass_parameters requires
BothAllPass(i) ==
    /\ Has(i, "Freq of 180 deg phase (Hz)", NumChars)
    /\ Has(i, "All-pass Q", NumChars)

\* C7 as stated: in a call that returns, every included chunk whose type
\* contains 'Parametric EQ' or 'All-Pass' in any letter case, and whose
\* required fields are present, yields a record of that category.
C7_CaseInsensitiveDispatch ==
    (pc = "parse_returned" /\ ~outcome.raised) =>
        \A i \in Tagged :
            (MatchesAny(Included, TypeOf(i)) /\ ~MatchesAny(Excluded, TypeOf(i))) =>
                /\ (MatchesAny(<<"Parametric EQ">>, TypeOf(i)) /\ AllThree(i)) =>
                      \E j \in RecordsOf(i) : "q_rbj" \in DOMAIN outcome.out[j]
                /\ (~MatchesAny(<<"Parametric EQ">>, TypeOf(i))
                      /\ MatchesAny(<<"All-Pass">>, TypeOf(i)) /\ BothAllPass(i)) =>
                      \E j \in RecordsOf(i) : "q_rbj" \notin DOMAIN outcome.out[j]

-----------------------------------------------------------------------------
(* Properties of write_storm_audio_format *)

\* the record has a rendering rule
Rendered(r) == Contains("Parametric EQ", r.type) \/ Contains("All-Pass", r.type)

\* the line of the record at index i: one per rendered record up to i
LineOf(i) == Cardinality({j \in 1..i : Rendered(filters[j])})

\* C2: the 'Filter n:' lines are numbered 1..k in order, k being the number
\* of records that have a rendering rule, whatever records without a rule the
\* sequence holds.
C2_Numbering ==
    pc = "emit_returned" =>
        /\ Len(outcome.lines) = LineOf(Len(filters))
        /\ \A n \in 1..Len(outcome.lines) : outcome.lines[n].n = n
        /\ \A i \in 1..Len(filters) :
              Rendered(filters[i]) =>
                  outcome.lines[LineOf(i)].freq = filters[i].freq

C2_Witness ==
    /\ pc = "emit_returned"
    /\ \E i, j \in 1..Len(filters) :
          /\ i < j
          /\ ~Rendered(filters[i])
          /\ Rendered(filters[j])
          /\ outcome.lines[1].n = 1

\* the All-Pass records handed to the emitter
AllPassIdx ==
    {i \in 1..Len(filters) :
        /\ ~Contains("Parametric EQ", filters[i].type)
        /\ Contains("All-Pass", filters[i].type)}

\* C8 as stated: the Order of an All-Pass line is 1, 2, 3 or 4 when the type
\* contains the word First, Second, Third or Fourth, and 2 when it contains
\* none of them.
C8_OrderByWord ==
    pc = "emit_returned" =>
        \A i \in AllPassIdx :
            LET t == filters[i].type
                o == outcome.lines[LineOf(i)].order
            IN  /\ Contains("First", t) => o = 1
                /\ Contains("Second", t) => o = 2
                /\ Contains("Third", t) => o = 3
                /\ Contains("Fourth", t) => o = 4
                /\ ~(Contains("First", t) \/ Contains("Second", t)
                       \/ Contains("Third", t) \/ Contains("Fourth", t)) => o = 2

\* C8 (amended): the Order of an All-Pass line is 2 when the type contains
\* "Second-Order"; otherwise 1 when it contains "First-Order"; otherwise 3
\* when it contains "Third-Order"; otherwise 4 when it contains
\* "Fourth-Order"; and 2 when it contains none of these texts.
C8_OrderByHyphenatedWord ==
    pc = "emit_returned" =>
        \A i \in AllPassIdx :
            LET t  == filters[i].type
                o  == outcome.lines[LineOf(i)].order
                s2 == Contains("Second-Order", t)
                s1 == Contains("First-Order", t)
                s3 == Contains("Third-Order", t)
                s4 == Contains("Fourth-Order", t)
            IN  /\ outcome.lines[LineOf(i)].kind = "All Pass"
                /\ s2 => o = 2
                /\ (s1 /\ ~s2) => o = 1
                /\ (s3 /\ ~s2 /\ ~s1) => o = 3
                /\ (s4 /\ ~s3 /\ ~s2 /\ ~s1) => o = 4
                /\ ~(s1 \/ s2 \/ s3 \/ s4) => o = 2

C8_Witness ==
    /\ pc = "emit_returned"
    /\ \E i, j \in AllPassIdx :
          /\ Contains("Third-Order", filters[i].type)
          /\ outcome.lines[LineOf(i)].order = 3
          /\ filters[j].type = "All-Pass"
          /\ outcome.lines[LineOf(j)].order = 2

====
